---- MODULE Spec2Model ----
(***************************************************************************)
(* Model of N8NComprehensiveWorkflowScraper                                *)
(* (src/src/n8n_workflow_scraper_expanded.py).                             *)
(*                                                                         *)
(* The specifications of this module share its variables:                  *)
(*   SpecHeur    one listing entry run through the node-count / price /    *)
(*               free heuristic of extract_workflow_links;                 *)
(*   SpecExtract one call of extract_workflow_links over a stream of       *)
(*               matched elements;                                         *)
(*   SpecCat     one call of scrape_category_workflows (pagination loop,   *)
(*               pending-download buffer, flushes);                        *)
(*   SpecBatch   download_batch_immediately with the per-item protocol of  *)
(*               download_workflow_via_clipboard, run twice over the same  *)
(*               item set;                                                 *)
(*   SpecRun     scrape_all_categories_comprehensively: browser start,     *)
(*               discover_main_categories, the loop over categories and    *)
(*               subcategories, the final statistics, browser close;       *)
(*   SpecCatLive SpecCat with weak fairness of its steps;                  *)
(*   SpecPipeline SpecCat and SpecBatch side by side;                      *)
(*   SpecTabs    SpecRun, and SpecBatch called from inside the traversal   *)
(*               while the exploration tab of the run is open.             *)
(***************************************************************************)
EXTENDS Integers, Sequences, FiniteSets, TLC

(***************************************************************************)
(* Program constants                                                       *)
(***************************************************************************)
MIN_NODES == 6

DOWNLOAD_BATCH_SIZE == 15

WORKFLOWS_PER_PAGE == 30

MAX_WORKFLOWS_PER_SUBCATEGORY == 150

MAX_TABS == 8

\* the literal of "if pages_loaded > 30"
PAGE_LIMIT == 30

\* the literal of "batch_size = min(3, len(workflows))"
TAB_POOL == 3

(***************************************************************************)
(* Bounds of the model                                                     *)
(***************************************************************************)
\* most tooltip-bearing <li> of a node list
MaxVisible == 5

\* largest "+N" value other than 0, 2 and 3
MaxPlus == 9

\* most <li><span> candidates of a node list
MaxSpans == 2

\* most '+N' occurrences in the entry text before the node list
MaxPre == 2

\* value of an "<N> nodes" text match
NodesN == 7

\* value of an "<N> nodos" text match
NodosN == 4

\* most elements matched by the three selectors of one extraction
MaxElems == 3

\* a small number of new accepted items on a page
SmallNew == 5

\* most already seen items an extraction returns again
ReplayLen == 2

\* most items of a batch
MaxBatch == 7

\* most failing steps over the two calls of a batch
MaxFaults == 2

\* most elements the category selectors match
MaxLinks == 3

\* most listings of one run that show the tracked item
MaxListings == 2

VARIABLES
    \* extract_workflow_links
    xpc,          \* "scan" while the selector loops run, "returned" after return
    workflows,    \* the local list `workflows`
    scanned,      \* number of elements the loops have visited
    cur,          \* the element visited last (<<>> before the first)
    curOut,       \* what the loop body computed for it (<<>> before the first)
    \* scrape_category_workflows
    cpc,               \* "goto", "extract", "flush", "more", "final", "done"
    all_workflows,     \* the local list `all_workflows`
    processed_slugs,   \* the local set `processed_slugs`
    pages_loaded,      \* the local counter `pages_loaded`
    pending_downloads, \* the local list `pending_downloads`
    found,             \* category_stats[category_name]['found']
    recorded,          \* 'downloaded' + 'errors' of the category
    handedAll,         \* every batch passed to download_batch_immediately, concatenated
    lastBatch,         \* the batch passed last
    lastFlush,         \* "none", "threshold" (line 694) or "final" (line 710)
    dupSkipped,        \* the last for loop met a slug of processed_slugs
    term,              \* how the loop ended: "none", "cap", "nomore", "bound", "error"
    caught,            \* an exception reached the handler at line 718
    \* download_batch_immediately / download_workflow_via_clipboard
    bpc,          \* "call", "open", "items", "finally", "returned", "raised"
    run,          \* 1 or 2: which call on the same item set
    batch,        \* the parameter `workflows`, as slugs
    tabs,         \* the local list `tabs`: "open" or "closed" per tab
    idx,          \* items the for loop has finished in this call
    tabLog,       \* tab_index of each item processed in this call
    attempts,     \* per item: calls of download_workflow_via_clipboard in this call
    files,        \* per slug: "absent", "whole" or "partial" file on disk
    dirExists,    \* the category directory exists
    opens,        \* per slug: times open(file_path, 'w') opened the file, in both calls
    navs,         \* per slug: page.goto calls in this call
    wrote1,       \* slugs whose file the first call wrote
    last,         \* the last item call: [item, tab, before, steps, result], or <<>>
    downloaded,   \* global_stats['total_workflows_downloaded']
    errors,       \* global_stats['total_errors']
    faults,       \* failing steps so far
    \* scrape_all_categories_comprehensively / discover_main_categories
    rpc,             \* "start", "nav", "scan", "discovered", "traverse", "stats",
                     \* "except", "finally", "ended", "crashed"
    browser,         \* "none", "open" or "closed"
    gotos,           \* page.goto calls on the categories page so far
    navOk,           \* one of them succeeded
    nlinks,          \* elements the selector loops have visited
    categories,      \* the local list `categories` of discover_main_categories
    main_categories, \* what discover_main_categories returned
    source,          \* "none", "nav_fallback", "live", "empty_fallback", "error"
    ci,              \* index of the category the for loop is at, from 1
    sj,              \* subcategories of it that have been scraped
    scraped,         \* slug of every scrape_category_workflows call, in order
    reported,        \* print_final_statistics has been called
    lastScrape,      \* how the last turn of the loop went: "none", "completed",
                     \* "absorbed" (caught at line 718) or "escaped"
    itemCalls,       \* download_workflow_via_clipboard calls for one tracked slug
    pagesOpened,     \* context.new_page() calls outside the batches
    explorationTab   \* the tab of line 787: "none", "open" or "closed"

xvars == <<xpc, workflows, scanned, cur, curOut>>

cvars == <<cpc, all_workflows, processed_slugs, pages_loaded, pending_downloads,
           found, recorded, handedAll, lastBatch, lastFlush, dupSkipped, term,
           caught>>

bvars == <<bpc, run, batch, tabs, idx, tabLog, attempts, files, dirExists, opens,
           navs, wrote1, last, downloaded, errors, faults>>

rvars == <<rpc, browser, gotos, navOk, nlinks, categories, main_categories, source,
           ci, sj, scraped, reported, lastScrape, itemCalls, pagesOpened,
           explorationTab>>

vars == <<xvars, cvars, bvars, rvars>>

Range(s) == {s[i] : i \in 1..Len(s)}

Min(a, b) == IF a <= b THEN a ELSE b

(***************************************************************************)
(* Listing entries as the extractor sees them.                             *)
(*   href      <<kind, id>>: "none" (no attribute), "other" (no            *)
(*             '/workflows/'), "category" ('/workflows/categories/..'),    *)
(*             "slug" ('/workflows/<id>-name'), "bare" ('/workflows/<id>') *)
(*   title     text of the first title sub-element                         *)
(*   raises    a browser call on the element raises                        *)
(*   hasList   element.query_selector('ul') found a node list              *)
(*   visible   number of li:has([role="tooltip"]) in it                    *)
(*   spans     the li span:not([role]) texts in order; <<>> when the text  *)
(*             has no '+<digits>', <<n>> when its first one is +n          *)
(*   prePlus   the '+<digits>' values of the entry text before the list    *)
(*   nodesM    <<n>> when the lowercase text matches (\d+)\s*nodes?        *)
(*   nodosM    <<n>> when it matches (\d+)\s*nodos?                        *)
(*   price     per price selector: "absent", "nosym" (element without a    *)
(*             currency symbol) or "sym"                                   *)
(*   free      per free selector: "absent", "nofree" or "free"             *)
(***************************************************************************)
PlusVals == {0, 2, 3, MaxPlus}

Opt(S) == {<<>>} \cup {<<n>> : n \in S}

SpanSeqs == UNION {[1..k -> Opt(PlusVals)] : k \in 0..MaxSpans}

PrePlusSeqs == UNION {[1..k -> PlusVals] : k \in 0..MaxPre}

NoPrice == <<"absent", "absent", "absent", "absent">>

NoFree == <<"absent", "absent", "absent", "absent">>

PriceChoices == {NoPrice,
                 <<"nosym", "absent", "sym", "absent">>,
                 <<"sym", "absent", "absent", "absent">>}

FreeChoices == {NoFree,
                <<"nofree", "absent", "absent", "free">>,
                <<"nofree", "nofree", "absent", "absent">>}

VisibleVals == {0, 3, MaxVisible}

ListShapes == {[hasList |-> FALSE, visible |-> 0, spans |-> <<>>]}
              \cup [hasList : {TRUE}, visible : VisibleVals, spans : SpanSeqs]

Entry(h, t, r, ls, pp, ne, no, pr, fr) ==
    [href |-> h, title |-> t, raises |-> r,
     hasList |-> ls.hasList, visible |-> ls.visible, spans |-> ls.spans,
     prePlus |-> pp, nodesM |-> ne, nodosM |-> no, price |-> pr, free |-> fr]

\* inputs of SpecHeur: every node-count shape, one href and title
HeurPrices == {NoPrice, <<"sym", "absent", "absent", "absent">>}

HeurFrees == {NoFree, <<"free", "absent", "absent", "absent">>}

\* inputs of SpecExtract: every href shape on an entry that passes the filters,
\* every flag and node-count shape on one href, and an element that raises
ExtractLists ==
    {[hasList |-> FALSE, visible |-> 0, spans |-> <<>>],
     [hasList |-> TRUE, visible |-> 3, spans |-> << <<2>> >>],
     [hasList |-> TRUE, visible |-> MaxVisible, spans |-> << <<3>> >>],
     [hasList |-> TRUE, visible |-> MaxVisible, spans |-> << <<MaxPlus>> >>]}

Hrefs == {<<"none", 0>>, <<"other", 0>>, <<"category", 0>>,
          <<"slug", 1>>, <<"slug", 2>>, <<"bare", 3>>, <<"bare", 4>>}

GoodList == [hasList |-> TRUE, visible |-> MaxVisible, spans |-> << <<3>> >>]

GoodFree == <<"free", "absent", "absent", "absent">>

ExtractEntries ==
    {Entry(h, t, FALSE, GoodList, <<>>, <<>>, <<>>, NoPrice, GoodFree) :
        h \in Hrefs, t \in {"t1", "t2"}}
    \cup
    {Entry(<<"slug", 1>>, "t1", FALSE, ls, <<>>, ne, <<>>, pr, fr) :
        ls \in ExtractLists, ne \in Opt({NodesN}),
        pr \in PriceChoices, fr \in FreeChoices}
    \cup
    {Entry(<<"slug", 2>>, "t1", TRUE, GoodList, <<>>, <<>>, <<>>, NoPrice, GoodFree)}

(***************************************************************************)
(* The loop body of extract_workflow_links                                 *)
(***************************************************************************)
\* href and '/workflows/' in href and '/workflows/categories/' not in href
\* and re.search(r'/workflows/\d+', href)
IsWorkflowHref(h) == h[1] \in {"slug", "bare"}

\* slug_match.group(1) if slug_match else f"workflow-{len(workflows)}"
SlugOf(h, wfs) == IF h[1] = "slug" THEN <<"id", h[2]>> ELSE <<"workflow", Len(wfs)>>

\* urljoin(self.BASE_URL, href)
UrlOf(h) == <<"https://n8n.io", "/workflows/", h[1], h[2]>>

\* first '+N' among the span texts (the loop with break), 0 when none
RECURSIVE FirstPlus(_)
FirstPlus(spans) ==
    IF spans = <<>> THEN 0
    ELSE IF Head(spans) # <<>> THEN Head(spans)[1]
    ELSE FirstPlus(Tail(spans))

\* the '+N' values of the span texts, in order
RECURSIVE PlusOf(_)
PlusOf(spans) ==
    IF spans = <<>> THEN <<>>
    ELSE Head(spans) \o PlusOf(Tail(spans))

\* re.findall(r'\+(\d+)', element.inner_text()): the entry text holds the
\* text before the node list, then the node list's own text
FullTextPlus(e) == e.prePlus \o (IF e.hasList THEN PlusOf(e.spans) ELSE <<>>)

\* METODO 1: nodes_count = visible_nodes + plus_indicator
Tier1Undercount(e) == IF e.hasList THEN FirstPlus(e.spans) ELSE 0

Tier1(e) == IF e.hasList THEN e.visible + FirstPlus(e.spans) ELSE 0

\* METODO 2: int(plus_matches[0]) when there is a match
Tier2(e) == IF FullTextPlus(e) # <<>> THEN FullTextPlus(e)[1] ELSE 0

\* METODO 3: the 'nodes?' pattern, then the 'nodos?' pattern, break on a match
Tier3(e) ==
    IF e.nodesM # <<>> THEN e.nodesM[1]
    ELSE IF e.nodosM # <<>> THEN e.nodosM[1]
    ELSE 0

NodesCountNoFallback(e) == Tier1(e)

NodesCount(e) ==
    LET n1 == Tier1(e)
        n2 == IF n1 = 0 THEN Tier2(e) ELSE n1
        n3 == IF n2 = 0 THEN Tier3(e) ELSE n2
    IN  n3

\* the price selector loop: an element whose text holds $, EUR or GBP sign
HasPrice(e) == \E i \in 1..Len(e.price) : e.price[i] = "sym"

\* the free selector loop: an element whose lowercase text holds 'free'
IsFree(e) == \E i \in 1..Len(e.free) : e.free[i] = "free"

WorkflowData(e, wfs, category) ==
    [title |-> e.title, slug |-> SlugOf(e.href, wfs), url |-> UrlOf(e.href),
     nodes |-> NodesCount(e), category |-> category,
     has_price |-> HasPrice(e), is_free |-> IsFree(e)]

\* FILTROS COMBINADOS
PassesFiltersNoFreeCheck(wd) ==
    /\ wd.nodes > 0
    /\ wd.nodes >= MIN_NODES
    /\ ~wd.has_price

PassesFilters(wd) ==
    /\ wd.nodes > 0
    /\ wd.nodes >= MIN_NODES
    /\ ~wd.has_price
    /\ wd.is_free

\* the list after the loop body ran for element e
AfterElement(e, wfs, category) ==
    IF e.raises \/ ~IsWorkflowHref(e.href) THEN wfs
    ELSE LET wd == WorkflowData(e, wfs, category)
         IN  IF PassesFilters(wd) /\ wd \notin Range(wfs)
             THEN Append(wfs, wd)
             ELSE wfs

\* what the loop body computed for e: <<>> when it never built workflow_data
OutOf(e, wfs, category) ==
    IF e.raises \/ ~IsWorkflowHref(e.href) THEN <<>>
    ELSE <<WorkflowData(e, wfs, category)>>

XCategory == "CRM"

\* the download orchestrator at rest
BatchIdle ==
    /\ bpc = "idle"
    /\ run = 0
    /\ batch = <<>>
    /\ tabs = <<>>
    /\ idx = 0
    /\ tabLog = <<>>
    /\ attempts = <<>>
    /\ files = <<>>
    /\ dirExists = FALSE
    /\ opens = <<>>
    /\ navs = <<>>
    /\ wrote1 = {}
    /\ last = <<>>
    /\ downloaded = 0
    /\ errors = 0
    /\ faults = 0

\* the category traversal at rest (specifications of the extractor)
CatIdle ==
    /\ cpc = "idle"
    /\ all_workflows = <<>>
    /\ processed_slugs = {}
    /\ pages_loaded = 0
    /\ pending_downloads = <<>>
    /\ found = 0
    /\ recorded = 0
    /\ handedAll = <<>>
    /\ lastBatch = <<>>
    /\ lastFlush = "none"
    /\ dupSkipped = FALSE
    /\ term = "none"
    /\ caught = FALSE

\* the run at rest
RunIdle ==
    /\ rpc = "idle"
    /\ browser = "none"
    /\ gotos = 0
    /\ navOk = FALSE
    /\ nlinks = 0
    /\ categories = <<>>
    /\ main_categories = <<>>
    /\ source = "none"
    /\ ci = 0
    /\ sj = 0
    /\ scraped = <<>>
    /\ reported = FALSE
    /\ lastScrape = "none"
    /\ itemCalls = 0
    /\ pagesOpened = 0
    /\ explorationTab = "none"

InitX ==
    /\ RunIdle
    /\ CatIdle
    /\ BatchIdle
    /\ xpc = "scan"
    /\ workflows = <<>>
    /\ scanned = 0
    /\ cur = <<>>
    /\ curOut = <<>>

ProcessElement(e) ==
    /\ xpc = "scan"
    /\ workflows' = AfterElement(e, workflows, XCategory)
    /\ scanned' = scanned + 1
    /\ cur' = <<e>>
    /\ curOut' = OutOf(e, workflows, XCategory)
    /\ xpc' = xpc
    /\ UNCHANGED cvars
    /\ UNCHANGED <<bvars, rvars>>

ReturnWorkflows ==
    /\ xpc = "scan"
    /\ xpc' = "returned"
    /\ UNCHANGED <<workflows, scanned, cur, curOut>>
    /\ UNCHANGED cvars
    /\ UNCHANGED <<bvars, rvars>>

\* SpecHeur: the element is drawn first, then the loop body runs on it
InitHeur ==
    \E ls \in ListShapes, pp \in PrePlusSeqs, ne \in Opt({0, NodesN}),
       no \in Opt({NodosN}), pr \in HeurPrices, fr \in HeurFrees :
        /\ RunIdle
        /\ CatIdle
        /\ BatchIdle
        /\ xpc = "scan"
        /\ workflows = <<>>
        /\ scanned = 0
        /\ cur = <<Entry(<<"slug", 1>>, "t1", FALSE, ls, pp, ne, no, pr, fr)>>
        /\ curOut = <<>>

EvaluateEntry ==
    /\ scanned < 1
    /\ cur # <<>>
    /\ ProcessElement(cur[1])

ScanElement == \E e \in ExtractEntries : scanned < MaxElems /\ ProcessElement(e)

NextHeur == EvaluateEntry

SpecHeur == InitHeur /\ [][NextHeur]_vars

NextExtract == ScanElement \/ ReturnWorkflows

SpecExtract == InitX /\ [][NextExtract]_vars

(***************************************************************************)
(* scrape_category_workflows                                               *)
(*                                                                         *)
(* An item is the record extract_workflow_links returns, written as its    *)
(* slug, the one field the traversal reads; two equal items of one page    *)
(* are two records with one slug (they differ in another field, or the     *)
(* page showed the entry again).  Slugs are numbered in the order in which *)
(* the listing first shows them.                                           *)
(***************************************************************************)
\* numbers of new accepted items one extraction may bring
NewCounts == {0, SmallNew, WORKFLOWS_PER_PAGE}

FreshItems(from, k) == [i \in 1..k |-> from + i]

LastItems(s, k) == SubSeq(s, Len(s) - Min(k, Len(s)) + 1, Len(s))

\* what extract_workflow_links may return on the listing, which keeps the
\* entries it showed before: some items seen already, k new ones, and
\* possibly the first new one once more (the extractor compares whole
\* records, line 471, so one slug can come twice)
PageWorkflows(all, replay, k, twice) ==
    (IF replay THEN LastItems(all, ReplayLen) ELSE <<>>)
    \o FreshItems(Len(all), k)
    \o (IF twice /\ k > 0 THEN <<Len(all) + 1>> ELSE <<>>)

\* the for loop over page_workflows (lines 670-683), on the locals
\* st = [all, seen, pend, found, skipped]
IsNewNoSlugCheck(w, st) == Len(st.all) < MAX_WORKFLOWS_PER_SUBCATEGORY

IsNew(w, st) ==
    /\ w \notin st.seen
    /\ Len(st.all) < MAX_WORKFLOWS_PER_SUBCATEGORY

\* line 675: pending_downloads.append(workflow)
AddPendingFront(pend, w) == <<w>> \o pend

AddPending(pend, w) == Append(pend, w)

\* lines 681 and 688: len(all_workflows) >= self.MAX_WORKFLOWS_PER_SUBCATEGORY
CapReachedStrict(all) == Len(all) > MAX_WORKFLOWS_PER_SUBCATEGORY

CapReached(all) == Len(all) >= MAX_WORKFLOWS_PER_SUBCATEGORY

RECURSIVE AddPage(_, _)
AddPage(page, st) ==
    IF page = <<>> THEN st
    ELSE LET w == Head(page)
         IN  IF IsNew(w, st)
             THEN LET st2 == [all |-> Append(st.all, w),
                              seen |-> st.seen \cup {w},
                              pend |-> AddPending(st.pend, w),
                              found |-> st.found + 1,
                              skipped |-> st.skipped]
                  IN  IF CapReached(st2.all)
                      THEN st2
                      ELSE AddPage(Tail(page), st2)
             ELSE AddPage(Tail(page),
                          [st EXCEPT !.skipped = st.skipped \/ w \in st.seen])

\* how a call of download_batch_immediately on a non-empty batch can end for
\* its caller: it returns after recording one outcome per item, or an
\* exception leaves it (context.new_page at line 603, before any item; or
\* mkdir at line 515, outside the try of the item protocol, here at the last
\* item)
BatchOutcomes(b) ==
    {[raised |-> FALSE, recorded |-> Len(b)],
     [raised |-> TRUE, recorded |-> 0],
     [raised |-> TRUE, recorded |-> Len(b) - 1]}

\* line 692: len(pending_downloads) >= self.DOWNLOAD_BATCH_SIZE
BatchReachedStrict(pend) == Len(pend) > DOWNLOAD_BATCH_SIZE

BatchReached(pend) == Len(pend) >= DOWNLOAD_BATCH_SIZE

\* line 708: if pending_downloads
HasRemainderAtThreshold(pend) == Len(pend) >= DOWNLOAD_BATCH_SIZE

HasRemainder(pend) == pend # <<>>

ExtractIdle ==
    /\ xpc = "idle"
    /\ workflows = <<>>
    /\ scanned = 0
    /\ cur = <<>>
    /\ curOut = <<>>

InitCat ==
    /\ RunIdle
    /\ ExtractIdle
    /\ BatchIdle
    /\ cpc = "goto"
    /\ all_workflows = <<>>
    /\ processed_slugs = {}
    /\ pages_loaded = 0
    /\ pending_downloads = <<>>
    /\ found = 0
    /\ recorded = 0
    /\ handedAll = <<>>
    /\ lastBatch = <<>>
    /\ lastFlush = "none"
    /\ dupSkipped = FALSE
    /\ term = "none"
    /\ caught = FALSE

\* lines 651-660: page.goto of the listing, then the locals are set
CatGoto ==
    /\ cpc = "goto"
    /\ \E ok \in BOOLEAN :
        /\ cpc' = IF ok THEN "extract" ELSE "done"
        /\ term' = IF ok THEN "none" ELSE "error"
        /\ caught' = ~ok
    /\ UNCHANGED <<all_workflows, processed_slugs, pages_loaded, pending_downloads,
                   found, recorded, handedAll, lastBatch, lastFlush, dupSkipped>>
    /\ UNCHANGED xvars
    /\ UNCHANGED <<bvars, rvars>>

\* line 664: pages_loaded += 1
NextPagesLoadedStuck(p) == p

NextPagesLoaded(p) == p + 1

\* lines 663-692: one extraction, the for loop, the cap test and the
\* threshold test
ExtractPage ==
    /\ cpc = "extract"
    /\ \E replay \in BOOLEAN, k \in NewCounts, twice \in BOOLEAN :
        LET page == PageWorkflows(all_workflows, replay, k, twice)
            st == AddPage(page, [all |-> all_workflows, seen |-> processed_slugs,
                                 pend |-> pending_downloads, found |-> found,
                                 skipped |-> FALSE])
        IN  /\ pages_loaded' = NextPagesLoaded(pages_loaded)
            /\ all_workflows' = st.all
            /\ processed_slugs' = st.seen
            /\ pending_downloads' = st.pend
            /\ found' = st.found
            /\ dupSkipped' = st.skipped
            /\ IF CapReached(st.all)
               THEN cpc' = "final" /\ term' = "cap"
               ELSE IF BatchReached(st.pend)
               THEN cpc' = "flush" /\ term' = term
               ELSE cpc' = "more" /\ term' = term
    /\ UNCHANGED <<recorded, handedAll, lastBatch, lastFlush, caught>>
    /\ UNCHANGED xvars
    /\ UNCHANGED <<bvars, rvars>>

\* lines 693-695: download_batch_immediately(pending_downloads), then
\* pending_downloads = []
ThresholdFlush ==
    /\ cpc = "flush"
    /\ \E o \in BatchOutcomes(pending_downloads) :
        /\ handedAll' = handedAll \o pending_downloads
        /\ lastBatch' = pending_downloads
        /\ lastFlush' = "threshold"
        /\ recorded' = recorded + o.recorded
        /\ caught' = o.raised
        /\ IF o.raised
           THEN cpc' = "done" /\ term' = "error" /\ UNCHANGED pending_downloads
           ELSE cpc' = "more" /\ term' = term /\ pending_downloads' = <<>>
    /\ UNCHANGED <<all_workflows, processed_slugs, pages_loaded, found, dupSkipped>>
    /\ UNCHANGED xvars
    /\ UNCHANGED <<bvars, rvars>>

\* lines 698-705: load_more_pages (False also when it raised), then the
\* page bound
LoadMore ==
    /\ cpc = "more"
    /\ \E more \in BOOLEAN :
        IF ~more THEN cpc' = "final" /\ term' = "nomore"
        ELSE IF pages_loaded > PAGE_LIMIT THEN cpc' = "final" /\ term' = "bound"
        ELSE cpc' = "extract" /\ term' = term
    /\ UNCHANGED <<all_workflows, processed_slugs, pages_loaded, pending_downloads,
                   found, recorded, handedAll, lastBatch, lastFlush, dupSkipped,
                   caught>>
    /\ UNCHANGED xvars
    /\ UNCHANGED <<bvars, rvars>>

\* lines 708-710: the remaining items are passed on, the list is not cleared
FinalFlush ==
    /\ cpc = "final"
    /\ IF HasRemainder(pending_downloads)
       THEN \E o \in BatchOutcomes(pending_downloads) :
            /\ handedAll' = handedAll \o pending_downloads
            /\ lastBatch' = pending_downloads
            /\ lastFlush' = "final"
            /\ recorded' = recorded + o.recorded
            /\ caught' = o.raised
       ELSE UNCHANGED <<handedAll, lastBatch, lastFlush, recorded, caught>>
    /\ cpc' = "done"
    /\ UNCHANGED <<all_workflows, processed_slugs, pages_loaded, pending_downloads,
                   found, dupSkipped, term>>
    /\ UNCHANGED xvars
    /\ UNCHANGED <<bvars, rvars>>

NextCat == CatGoto \/ ExtractPage \/ ThresholdFlush \/ LoadMore \/ FinalFlush

SpecCat == InitCat /\ [][NextCat]_vars

\* every browser call returns, so the traversal always takes its next step
SpecCatLive == InitCat /\ [][NextCat]_vars /\ WF_vars(NextCat)

(***************************************************************************)
(* download_batch_immediately and download_workflow_via_clipboard          *)
(*                                                                         *)
(* The items of a batch are the slugs 1..n (a traversal hands on no slug   *)
(* twice).  One call of download_workflow_via_clipboard with the counter   *)
(* update that follows it is one step.                                     *)
(***************************************************************************)
\* batch_size = min(3, len(workflows))
BatchSizeWhole(ws) == Len(ws)

BatchSize(ws) == Min(TAB_POOL, Len(ws))

\* tab_index = i % batch_size, i counted from 0
TabIndex(i, ws) == i % BatchSize(ws)

\* how one call of download_workflow_via_clipboard can go, as
\* [steps, result, file]: the browser and file steps it performed, what it
\* returned ("raise": an exception left it) and the file it leaves.
\*   lines 514-521: mkdir and the existence test, outside the try
\*   lines 523-589: the protocol inside try / except Exception
NavSteps == {"goto"}

UseSteps == {"goto", "use_click"}

CopySteps == {"goto", "use_click", "copy_click"}

ReadSteps == {"goto", "use_click", "copy_click", "clipboard_read"}

WriteSteps == {"goto", "use_click", "copy_click", "clipboard_read", "open_w"}

\* page.url after the navigation: the host it is on and whether the text
\* "n8n.io" occurs anywhere in it (it does in every URL of that host)
NoUrl == [host |-> "none", mentions |-> FALSE]

LandingUrls ==
    {[host |-> "n8n.io", mentions |-> TRUE],
     [host |-> "elsewhere", mentions |-> FALSE],
     [host |-> "elsewhere", mentions |-> TRUE]}

\* if "n8n.io" not in page.url: return False
HostCheck(u) == u.mentions

Outcome(st, res, f, bad, u) ==
    [steps |-> st, result |-> res, file |-> f, fault |-> bad, url |-> u]

\* mkdir(exist_ok=True) on a missing directory can fail
MkdirFails == {Outcome({}, "raise", "absent", TRUE, NoUrl)}

\* if file_path.exists(): return True
ExistsOutcomeRedownload(f) ==
    {Outcome(WriteSteps, "true", "whole", FALSE, [host |-> "n8n.io", mentions |-> TRUE])}

ExistsOutcome(f) == {Outcome({}, "true", f, FALSE, NoUrl)}

\* what follows a passed host check on the page at u
AfterHostCheck(u) ==
    {Outcome(NavSteps, "false", "absent", TRUE, u),    \* no visible 'Use for free'
     Outcome(UseSteps, "false", "absent", TRUE, u),    \* no visible copy control
     Outcome(CopySteps, "false", "absent", TRUE, u),   \* the clipboard read raised
     Outcome(ReadSteps, "false", "absent", TRUE, u),   \* clipboard empty, JSON invalid
     Outcome(WriteSteps, "false", "absent", TRUE, u),  \* open raised
     Outcome(WriteSteps, "false", "partial", TRUE, u), \* json.dump raised
     Outcome(WriteSteps, "true", "whole", FALSE, u)}

ProtocolOutcomes ==
    {Outcome(NavSteps, "false", "absent", TRUE, NoUrl)}          \* goto raised
    \cup UNION {IF HostCheck(u) THEN AfterHostCheck(u)
                ELSE {Outcome(NavSteps, "false", "absent", TRUE, u)} : u \in LandingUrls}

ItemOutcomes(f, dir) ==
    (IF dir THEN {} ELSE MkdirFails)
    \cup (IF f # "absent" THEN ExistsOutcome(f) ELSE ProtocolOutcomes)

Zeros(n) == [i \in 1..n |-> 0]

\* the call of download_batch_immediately about to start on its list
BatchStart ==
    /\ \E n \in 0..MaxBatch, pre \in SUBSET (1..MaxBatch), dir \in BOOLEAN :
        /\ pre \subseteq 1..n
        /\ Cardinality(pre) <= 1
        /\ pre # {} => dir
        /\ batch = [i \in 1..n |-> i]
        /\ files = [i \in 1..n |-> IF i \in pre THEN "whole" ELSE "absent"]
        /\ dirExists = dir
        /\ opens = Zeros(n)
        /\ navs = Zeros(n)
        /\ attempts = Zeros(n)
    /\ bpc = "call"
    /\ run = 1
    /\ tabs = <<>>
    /\ idx = 0
    /\ tabLog = <<>>
    /\ wrote1 = {}
    /\ last = <<>>
    /\ downloaded = 0
    /\ errors = 0
    /\ faults = 0

InitBatch ==
    /\ RunIdle
    /\ ExtractIdle
    /\ CatIdle
    /\ BatchStart

\* lines 593-599: nothing to do for an empty list
BatchCall ==
    /\ bpc = "call"
    /\ bpc' = IF batch = <<>> THEN "returned" ELSE "open"
    /\ UNCHANGED <<run, batch, tabs, idx, tabLog, attempts, files, dirExists, opens,
                   navs, wrote1, last, downloaded, errors, faults>>
    /\ UNCHANGED <<xvars, cvars, rvars>>

\* lines 602-606: context.new_page() per tab; an exception goes to finally
OpenTab ==
    /\ bpc = "open"
    /\ \/ /\ Len(tabs) < BatchSize(batch)
          /\ tabs' = Append(tabs, "open")
          /\ bpc' = IF Len(tabs') = BatchSize(batch) THEN "items" ELSE "open"
          /\ UNCHANGED faults
       \/ /\ Len(tabs) < BatchSize(batch)
          /\ faults < MaxFaults
          /\ faults' = faults + 1
          /\ bpc' = "finally_raise"
          /\ UNCHANGED tabs
    /\ UNCHANGED <<run, batch, idx, tabLog, attempts, files, dirExists, opens,
                   navs, wrote1, last, downloaded, errors>>
    /\ UNCHANGED <<xvars, cvars, rvars>>

\* line 609: for i, workflow in enumerate(workflows)
NextItemFromEnd(b, i) == b[Len(b) - i]

NextItem(b, i) == b[i + 1]

\* lines 613-625: what the result of the call adds to the counters
DownloadedDelta(res) == IF res = "true" THEN 1 ELSE 0

ErrorDeltaNone(res) == 0

ErrorDelta(res) == IF res = "false" THEN 1 ELSE 0

\* lines 609-627: one turn of the for loop
ProcessItem ==
    /\ bpc = "items"
    /\ idx < Len(batch)
    /\ LET item == NextItem(batch, idx)
           tab == TabIndex(idx, batch)
       IN  \E o \in ItemOutcomes(files[item], dirExists) :
            /\ o.fault => faults < MaxFaults
            /\ faults' = IF o.fault THEN faults + 1 ELSE faults
            /\ tabs[tab + 1] = "open"
            /\ tabLog' = Append(tabLog, tab)
            /\ attempts' = [attempts EXCEPT ![item] = @ + 1]
            /\ last' = <<[item |-> item, tab |-> tab, before |-> files[item],
                          steps |-> o.steps, result |-> o.result, url |-> o.url]>>
            /\ files' = [files EXCEPT ![item] = o.file]
            /\ dirExists' = (dirExists \/ o.result # "raise")
            /\ opens' = [opens EXCEPT ![item] =
                            IF "open_w" \in o.steps /\ o.file # "absent" THEN @ + 1 ELSE @]
            /\ navs' = [navs EXCEPT ![item] = IF "goto" \in o.steps THEN @ + 1 ELSE @]
            /\ wrote1' = IF run = 1 /\ "open_w" \in o.steps /\ o.file = "whole"
                         THEN wrote1 \cup {item} ELSE wrote1
            /\ downloaded' = downloaded + DownloadedDelta(o.result)
            /\ errors' = errors + ErrorDelta(o.result)
            /\ idx' = IF o.result = "raise" THEN idx ELSE idx + 1
            /\ bpc' = IF o.result = "raise" THEN "finally_raise"
                      ELSE IF idx + 1 = Len(batch) THEN "finally" ELSE "items"
    /\ UNCHANGED <<run, batch, tabs>>
    /\ UNCHANGED <<xvars, cvars, rvars>>

\* lines 629-635: every opened tab is closed, then the call returns or the
\* exception goes on to the caller
CloseAllUnlessRaising(ts, raising) ==
    IF raising THEN ts ELSE [i \in 1..Len(ts) |-> "closed"]

\* finally: for tab in tabs: try: tab.close() except: pass
CloseAll(ts, raising) == [i \in 1..Len(ts) |-> "closed"]

CloseTabs ==
    /\ bpc \in {"finally", "finally_raise"}
    /\ tabs' = CloseAll(tabs, bpc = "finally_raise")
    /\ bpc' = IF bpc = "finally" THEN "returned" ELSE "raised"
    /\ UNCHANGED <<run, batch, idx, tabLog, attempts, files, dirExists, opens,
                   navs, wrote1, last, downloaded, errors, faults>>
    /\ UNCHANGED <<xvars, cvars, rvars>>

\* the same item set is handed to download_batch_immediately once more
CallAgain ==
    /\ bpc \in {"returned", "raised"}
    /\ run = 1
    /\ run' = 2
    /\ bpc' = "call"
    /\ tabs' = <<>>
    /\ idx' = 0
    /\ tabLog' = <<>>
    /\ attempts' = Zeros(Len(batch))
    /\ navs' = Zeros(Len(batch))
    /\ last' = <<>>
    /\ UNCHANGED <<batch, files, dirExists, opens, wrote1, downloaded, errors, faults>>
    /\ UNCHANGED <<xvars, cvars, rvars>>

NextBatch == BatchCall \/ OpenTab \/ ProcessItem \/ CloseTabs \/ CallAgain

SpecBatch == InitBatch /\ [][NextBatch]_vars

(***************************************************************************)
(* The traversal of a category and the download of a batch side by side:   *)
(* a behaviour is one call of scrape_category_workflows or one item set    *)
(* going through download_batch_immediately.                               *)
(***************************************************************************)
InitPipeline == InitCat \/ InitBatch

NextPipeline == NextCat \/ NextBatch

SpecPipeline == InitPipeline /\ [][NextPipeline]_vars

(***************************************************************************)
(* discover_main_categories, discover_subcategories and                    *)
(* scrape_all_categories_comprehensively                                   *)
(*                                                                         *)
(* A slug is the sequence of the pieces of its text, so that rstrip('/')   *)
(* and lower() are computed on it.  One call of scrape_category_workflows  *)
(* is one step of the run (SpecCat has its inside).                        *)
(***************************************************************************)
\* what follows the last '/workflows/categories/' in the href of a matched
\* element
CategoryTails ==
    {<<>>, <<"sales">>, <<"sales", "/">>, <<"finance", "/">>,
     <<"ai">>, <<"Ai", "/">>, <<"AI", "/", "/">>}

\* a matched element: its href as <<kind, tail>> ("none": no href attribute,
\* "other": an href without '/workflows/categories/'), its stripped text,
\* and whether get_attribute or inner_text raises on it
Link(h, t, r) == [href |-> h, text |-> t, raises |-> r]

LinkElements ==
    {Link(<<"cat", tl>>, "A", FALSE) : tl \in CategoryTails}
    \cup {Link(<<"cat", <<"sales">>>>, t, FALSE) : t \in {"", "B"}}
    \cup {Link(<<"none", <<>>>>, "A", FALSE),
          Link(<<"other", <<>>>>, "A", FALSE),
          Link(<<"cat", <<"sales">>>>, "A", TRUE)}

\* str.lower on one piece
Lower(tok) == CASE tok = "AI" -> "ai" [] tok = "Ai" -> "ai" [] OTHER -> tok

LowerSlug(s) == [i \in 1..Len(s) |-> Lower(s[i])]

\* str.rstrip('/')
RECURSIVE RStrip(_)
RStrip(s) ==
    IF s # <<>> /\ s[Len(s)] = "/" THEN RStrip(SubSeq(s, 1, Len(s) - 1)) ELSE s

\* if href and '/workflows/categories/' in href and text
IsCategoryLink(e) == e.href[1] = "cat" /\ e.text # ""

\* category_info: name, slug = href.split(...)[-1].rstrip('/'), url = urljoin
CategoryInfo(e) ==
    [name |-> e.text, slug |-> RStrip(e.href[2]),
     url |-> <<"https://n8n.io", "/workflows/categories/">> \o e.href[2]]

\* the list after the loop body ran for element e
AfterLink(e, cats) ==
    IF e.raises \/ ~IsCategoryLink(e) THEN cats
    ELSE IF CategoryInfo(e) \notin Range(cats)
         THEN Append(cats, CategoryInfo(e))
         ELSE cats

\* categories = [cat for cat in categories if cat['slug'].lower() != 'ai']
NotAiCaseSensitive(cat) == cat.slug # <<"ai">>

NotAi(cat) == LowerSlug(cat.slug) # <<"ai">>

FilterAi(cats) == SelectSeq(cats, NotAi)

Known(name, slug) ==
    [name |-> name, slug |-> <<slug>>,
     url |-> <<"https://n8n.io", "/workflows/categories/", slug, "/">>]

\* known_categories, the same list at lines 168-175 and 233-240
KnownCategories ==
    <<Known("Sales", "sales"), Known("IT Ops", "it-ops"),
      Known("Marketing", "marketing"), Known("Document Ops", "document-ops"),
      Known("Other", "other"), Known("Support", "support")>>

\* max_retries = 3
max_retries == 3

\* if attempt == max_retries - 1, after the n-th failed page.goto
NavExhaustedLate(n) == n = max_retries + 1

NavExhausted(n) == n = max_retries

\* known_subcategories
KnownSubcategories ==
    [s \in {"sales", "marketing", "it-ops", "document-ops", "support", "other"} |->
        CASE s = "sales" ->
                <<Known("CRM", "crm"), Known("Lead Generation", "lead-generation"),
                  Known("Lead Nurturing", "lead-nurturing")>>
          [] s = "marketing" ->
                <<Known("Content Creation", "content-creation"),
                  Known("Market Research", "market-research"),
                  Known("Social Media", "social-media")>>
          [] s = "it-ops" ->
                <<Known("SecOps", "secops"), Known("Engineering", "engineering"),
                  Known("DevOps", "devops")>>
          [] s = "document-ops" ->
                <<Known("Document Extraction", "document-extraction"),
                  Known("File Management", "file-management"),
                  Known("Invoice Processing", "invoice-processing")>>
          [] s = "support" ->
                <<Known("Support Chatbot", "support-chatbot"),
                  Known("Ticket Management", "ticket-management"),
                  Known("Internal Wiki", "internal-wiki")>>
          [] OTHER ->
                <<Known("Crypto Trading", "crypto-trading"), Known("HR", "hr"),
                  Known("Miscellaneous", "miscellaneous"),
                  Known("Personal Productivity", "personal-productivity"),
                  Known("Project Management", "project-management")>>]

\* discover_subcategories: the table entry of category['slug'].lower(), or []
Subcategories(cat) ==
    LET low == LowerSlug(cat.slug)
    IN  IF Len(low) = 1 /\ low[1] \in DOMAIN KnownSubcategories
        THEN KnownSubcategories[low[1]]
        ELSE <<>>

InitRun ==
    /\ ExtractIdle
    /\ CatIdle
    /\ BatchIdle
    /\ rpc = "start"
    /\ browser = "none"
    /\ gotos = 0
    /\ navOk = FALSE
    /\ nlinks = 0
    /\ categories = <<>>
    /\ main_categories = <<>>
    /\ source = "none"
    /\ ci = 0
    /\ sj = 0
    /\ scraped = <<>>
    /\ reported = FALSE
    /\ lastScrape = "none"
    /\ itemCalls = 0
    /\ pagesOpened = 0
    /\ explorationTab = "none"

\* lines 776-787: launch, new_context, new_page, all before the try
StartBrowser ==
    /\ rpc = "start"
    /\ \E o \in {"ok", "launch_raised", "page_raised"} :
        /\ browser' = IF o = "launch_raised" THEN "none" ELSE "open"
        /\ rpc' = IF o = "ok" THEN "nav" ELSE "crashed"
        /\ pagesOpened' = IF o = "ok" THEN 1 ELSE 0
        /\ explorationTab' = IF o = "ok" THEN "open" ELSE "none"
    /\ UNCHANGED <<gotos, navOk, nlinks, categories, main_categories, source,
                   ci, sj, scraped, reported, lastScrape, itemCalls>>
    /\ UNCHANGED <<xvars, cvars, bvars>>

\* lines 157-182: one turn of the retry loop
DiscoverNav ==
    /\ rpc = "nav"
    /\ gotos' = gotos + 1
    /\ \E ok \in BOOLEAN :
        IF ok
        THEN /\ navOk' = TRUE
             /\ rpc' = "scan"
             /\ UNCHANGED <<main_categories, source>>
        ELSE /\ navOk' = navOk
             /\ IF NavExhausted(gotos + 1)
                THEN /\ main_categories' = KnownCategories
                     /\ source' = "nav_fallback"
                     /\ rpc' = "discovered"
                ELSE /\ rpc' = "nav"
                     /\ UNCHANGED <<main_categories, source>>
    /\ UNCHANGED <<browser, nlinks, categories, ci, sj, scraped, reported,
                   lastScrape, itemCalls, pagesOpened, explorationTab>>
    /\ UNCHANGED <<xvars, cvars, bvars>>

\* lines 199-222: the loop body for one element of one selector
ScanLink ==
    /\ rpc = "scan"
    /\ nlinks < MaxLinks
    /\ \E e \in LinkElements : categories' = AfterLink(e, categories)
    /\ nlinks' = nlinks + 1
    /\ UNCHANGED <<rpc, browser, gotos, navOk, main_categories, source,
                   ci, sj, scraped, reported, lastScrape, itemCalls, pagesOpened, explorationTab>>
    /\ UNCHANGED <<xvars, cvars, bvars>>

\* line 198 is outside the inner try: page.query_selector_all raises and
\* the handler at lines 249-251 returns []
QueryRaises ==
    /\ rpc = "scan"
    /\ main_categories' = <<>>
    /\ source' = "error"
    /\ rpc' = "discovered"
    /\ UNCHANGED <<browser, gotos, navOk, nlinks, categories, ci, sj, scraped,
                   reported, lastScrape, itemCalls, pagesOpened, explorationTab>>
    /\ UNCHANGED <<xvars, cvars, bvars>>

\* lines 224-247: the filter, the fallback for an empty list, the return
\* (categories keeps the list as it was before the filter)
FinishScan ==
    /\ rpc = "scan"
    /\ main_categories' = IF FilterAi(categories) = <<>> THEN KnownCategories
                          ELSE FilterAi(categories)
    /\ source' = IF FilterAi(categories) = <<>> THEN "empty_fallback" ELSE "live"
    /\ rpc' = "discovered"
    /\ UNCHANGED <<browser, gotos, navOk, nlinks, categories, ci, sj, scraped,
                   reported, lastScrape, itemCalls, pagesOpened, explorationTab>>
    /\ UNCHANGED <<xvars, cvars, bvars>>

\* lines 789-837: where control goes when the try body is left by the
\* return of line 796, after the statistics, or through the handler
FinallySkippedOnReturn(way) == IF way = "return" THEN "ended" ELSE "finally"

AfterBody(way) == "finally"

\* lines 794-798: if not main_categories: return
AfterDiscover ==
    /\ rpc = "discovered"
    /\ IF main_categories = <<>>
       THEN rpc' = AfterBody("return") /\ UNCHANGED ci
       ELSE rpc' = "traverse" /\ ci' = 1
    /\ UNCHANGED <<browser, gotos, navOk, nlinks, categories, main_categories,
                   source, sj, scraped, reported, lastScrape, itemCalls, pagesOpened, explorationTab>>
    /\ UNCHANGED <<xvars, cvars, bvars>>

\* one turn of the loop body: the call of scrape_category_workflows ran to
\* its end, or an exception raised inside its try (lines 649-716: listing
\* navigation, extraction, opening download tabs) was caught at line 718,
\* or an exception was raised outside every inner try (a log line that
\* print cannot write, lines 802 and 640)
TurnOutcomes == {"completed", "absorbed", "escaped"}

EndsRunOnAnyError(o) == o # "completed"

\* what reaches the handler at line 831
EndsRun(o) == o = "escaped"

\* lines 808-821: the (sub)category the j-th next call is made on
ScrapeTargetParent(cat, j) == cat

ScrapeTarget(cat, j) ==
    IF Subcategories(cat) # <<>> THEN Subcategories(cat)[j + 1] ELSE cat

\* line 647: page = exploration_page if exploration_page else context.new_page()
OwnPage(exploration_page) == exploration_page = "none"

\* lines 722-726: if not exploration_page: page.close()
ClosesOnExitAlways(exploration_page) == TRUE

ClosesOnExit(exploration_page) == exploration_page = "none"

\* lines 657, 671-675: a listed item is handed on unless this call's own
\* processed_slugs has it; downloaded_slugs (line 96) is never read
HandsOver(listed, calls) == listed

\* lines 801-826: the next call of scrape_category_workflows, on the next
\* subcategory of main_categories[ci] or on the category itself, with the
\* exploration tab; its listing may show the tracked item
ScrapeNext ==
    /\ rpc = "traverse"
    /\ LET cat == main_categories[ci]
           subs == Subcategories(cat)
           target == ScrapeTarget(cat, sj)
           lastOfCat == subs = <<>> \/ sj + 1 = Len(subs)
       IN  \E o \in TurnOutcomes, listed \in BOOLEAN :
            /\ lastScrape' = o
            /\ IF EndsRun(o)
               THEN /\ ~listed
                    /\ rpc' = "except"
                    /\ UNCHANGED <<ci, sj, scraped, itemCalls, pagesOpened,
                                   explorationTab>>
               ELSE /\ listed => itemCalls < MaxListings
                    /\ itemCalls' = IF HandsOver(listed, itemCalls)
                                    THEN itemCalls + 1 ELSE itemCalls
                    /\ pagesOpened' = IF OwnPage("page") THEN pagesOpened + 1
                                      ELSE pagesOpened
                    /\ explorationTab' = IF ~OwnPage("page") /\ ClosesOnExit("page")
                                         THEN "closed" ELSE explorationTab
                    /\ scraped' = Append(scraped, target.slug)
                    /\ sj' = IF lastOfCat THEN 0 ELSE sj + 1
                    /\ ci' = IF lastOfCat /\ ci < Len(main_categories)
                             THEN ci + 1 ELSE ci
                    /\ rpc' = IF lastOfCat /\ ci = Len(main_categories)
                              THEN "stats" ELSE "traverse"
    /\ UNCHANGED <<browser, gotos, navOk, nlinks, categories, main_categories,
                   source, reported>>
    /\ UNCHANGED <<xvars, cvars, bvars>>

\* line 829: print_final_statistics(), which reads the download directory
\* and can raise
PrintFinalStatistics ==
    /\ rpc = "stats"
    /\ reported' = TRUE
    /\ \E ok \in BOOLEAN : rpc' = IF ok THEN AfterBody("stats") ELSE "except"
    /\ UNCHANGED <<browser, gotos, navOk, nlinks, categories, main_categories,
                   source, ci, sj, scraped, lastScrape, itemCalls, pagesOpened, explorationTab>>
    /\ UNCHANGED <<xvars, cvars, bvars>>

\* lines 831-832: except Exception logs the error
LogCritical ==
    /\ rpc = "except"
    /\ rpc' = AfterBody("except")
    /\ UNCHANGED <<browser, gotos, navOk, nlinks, categories, main_categories,
                   source, ci, sj, scraped, reported, lastScrape, itemCalls, pagesOpened, explorationTab>>
    /\ UNCHANGED <<xvars, cvars, bvars>>

\* lines 833-837: finally: browser.close()
CloseBrowser ==
    /\ rpc = "finally"
    /\ browser' = "closed"
    /\ explorationTab' = "closed"
    /\ rpc' = "ended"
    /\ UNCHANGED <<gotos, navOk, nlinks, categories, main_categories, source,
                   ci, sj, scraped, reported, lastScrape, itemCalls, pagesOpened>>
    /\ UNCHANGED <<xvars, cvars, bvars>>

NextRun ==
    \/ StartBrowser
    \/ DiscoverNav
    \/ ScanLink
    \/ QueryRaises
    \/ FinishScan
    \/ AfterDiscover
    \/ ScrapeNext
    \/ PrintFinalStatistics
    \/ LogCritical
    \/ CloseBrowser

SpecRun == InitRun /\ [][NextRun]_vars

(***************************************************************************)
(* The tabs of a run: the run itself, or a call of                         *)
(* download_batch_immediately made from scrape_category_workflows          *)
(* (lines 694, 710) during the first call of the traversal.                *)
(***************************************************************************)
\* the run inside scrape_category_workflows, called with the page of
\* line 787 (lines 813, 821), after the fallback of lines 168-179
InDownload ==
    /\ rpc = "downloading"
    /\ browser = "open"
    /\ gotos = max_retries
    /\ navOk = FALSE
    /\ nlinks = 0
    /\ categories = <<>>
    /\ main_categories = KnownCategories
    /\ source = "nav_fallback"
    /\ ci = 1
    /\ sj = 0
    /\ scraped = <<>>
    /\ reported = FALSE
    /\ lastScrape = "none"
    /\ itemCalls = 0
    /\ pagesOpened = 1
    /\ explorationTab = "open"

InitTabs ==
    \/ InitRun
    \/ InDownload /\ ExtractIdle /\ CatIdle /\ BatchStart

NextTabs == NextRun \/ NextBatch

SpecTabs == InitTabs /\ [][NextTabs]_vars

(***************************************************************************)
(* Properties of the acceptance heuristic and of the extractor             *)
(***************************************************************************)
Rejecting(wd) == wd.nodes = 0 \/ wd.nodes < MIN_NODES \/ wd.has_price \/ ~wd.is_free

\* C1 (fail-closed acceptance): no record of the returned list has a node
\* count of 0 or below MIN_NODES, a price, or no free label; and an element
\* whose computed record has one of these is not in the list after its turn.
C1_FailClosed ==
    /\ \A i \in 1..Len(workflows) : ~Rejecting(workflows[i])
    /\ (curOut # <<>> /\ Rejecting(curOut[1])) => curOut[1] \notin Range(workflows)

\* an element with enough nodes and no price but no free label was rejected
\* after another one had been accepted
C1_Witness ==
    /\ curOut # <<>>
    /\ curOut[1].nodes >= MIN_NODES
    /\ ~curOut[1].has_price
    /\ ~curOut[1].is_free
    /\ Len(workflows) >= 1
    /\ curOut[1] \notin Range(workflows)

\* C2 (tiered node count): node_count is visible + overflow when that sum is
\* not 0; else the first '+N' of the full text when that is not 0; else the N
\* of the 'nodes' pattern, else of the 'nodos' pattern; else 0.  3 visible
\* with '+2' gives 5 and is rejected, 5 visible with '+3', no price and a
\* free label gives 8 and is accepted.
C2_TieredNodeCount ==
    scanned = 1 =>
        LET e == cur[1]
            n == curOut[1].nodes
            sum == IF e.hasList THEN e.visible + FirstPlus(e.spans) ELSE 0
            full == FullTextPlus(e)
        IN  /\ n = IF sum # 0 THEN sum
                   ELSE IF full # <<>> /\ full[1] # 0 THEN full[1]
                   ELSE IF e.nodesM # <<>> THEN e.nodesM[1]
                   ELSE IF e.nodosM # <<>> THEN e.nodosM[1]
                   ELSE 0
            /\ (e.hasList /\ e.visible = 3 /\ FirstPlus(e.spans) = 2)
                    => (n = 5 /\ workflows = <<>>)
            /\ (e.hasList /\ e.visible = 5 /\ FirstPlus(e.spans) = 3
                    /\ e.price = NoPrice /\ \E i \in 1..Len(e.free) : e.free[i] = "free")
                    => (n = 8 /\ workflows = <<curOut[1]>>)

\* the third tier decided: an empty node list, '+0' then '+9' in the text
\* before it, '7 nodes'
C2_Witness ==
    /\ scanned = 1
    /\ cur[1].hasList
    /\ cur[1].visible = 0
    /\ cur[1].prePlus = <<0, MaxPlus>>
    /\ cur[1].nodesM = <<NodesN>>
    /\ curOut[1].nodes = NodesN

NoRepeat(s) == Cardinality(Range(s)) = Len(s)

LoopEnded == cpc = "done" /\ term \in {"cap", "nomore", "bound"}

\* C4 (per-category dedup): no two items of the accumulated accepted list of
\* one traversal share a slug, and so no two items handed to
\* download_batch_immediately by that traversal do.
C4_PerCategoryDedup ==
    /\ NoRepeat(all_workflows)
    /\ NoRepeat(handedAll)
    /\ processed_slugs = Range(all_workflows)

\* a later page offered a slug seen before, and it was left out
C4_Witness ==
    /\ dupSkipped
    /\ pages_loaded >= 2
    /\ Len(all_workflows) >= 2
    /\ Len(all_workflows) < MAX_WORKFLOWS_PER_SUBCATEGORY

C6_BatchConservation ==
    LoopEnded =>
        /\ Len(handedAll) = Len(all_workflows)
        /\ Len(handedAll) = found
        /\ handedAll = all_workflows
        /\ NoRepeat(handedAll)

\* the page bound ended a traversal that had flushed at the threshold and
\* flushed a remainder at the end
C6_Witness ==
    /\ cpc = "done"
    /\ term = "bound"
    /\ lastFlush = "final"
    /\ Len(lastBatch) < Len(handedAll)
    /\ Len(all_workflows) > 0

(***************************************************************************)
(* Properties of the download orchestrator                                 *)
(***************************************************************************)
ClaimedTabs(n) == IF n < 3 THEN n ELSE 3

BatchOver == bpc \in {"returned", "raised"}

\* C7 (idempotence check): a call of download_workflow_via_clipboard for an
\* item whose file exists returns success, performs no navigation, click or
\* clipboard read, opens no file for writing and leaves the file as it was.
C7_ExistsShortCircuit ==
    (last # <<>> /\ last[1].before # "absent") =>
        /\ last[1].result = "true"
        /\ last[1].steps = {}
        /\ files[last[1].item] = last[1].before
        /\ navs[last[1].item] = 0

\* the first call met a file that was on disk before the batch ran
C7_Witness ==
    /\ run = 1
    /\ last # <<>>
    /\ last[1].before = "whole"
    /\ last[1].result = "true"
    /\ opens[last[1].item] = 0

\* C8 (idempotence across runs): in the second call on the same item set no
\* item whose file the first call wrote is navigated to, and no file is
\* opened for writing a second time.
C8_SecondRunNoRefetch ==
    /\ run = 2 => \A it \in wrote1 : navs[it] = 0 /\ opens[it] = 1
    /\ \A it \in 1..Len(opens) : opens[it] <= 1

\* the second call has finished over items the first call had written
C8_Witness ==
    /\ run = 2
    /\ bpc = "returned"
    /\ Cardinality(wrote1) >= 2
    /\ \A it \in wrote1 : attempts[it] = 1
    /\ downloaded >= 2 * Cardinality(wrote1)

\* C9 (tab pool and round robin): a batch of n > 0 items never has more than
\* min(3, n) tabs and has exactly that many once its items are processed;
\* the item at index i is processed on tab i mod min(3, n); 7 items go to
\* the tabs 0,1,2,0,1,2,0.
C9_TabRoundRobin ==
    /\ Len(tabs) <= ClaimedTabs(Len(batch))
    /\ (bpc \in {"items", "finally", "returned"} /\ batch # <<>>)
            => Len(tabs) = ClaimedTabs(Len(batch))
    /\ \A i \in 1..Len(tabLog) : tabLog[i] = (i - 1) % ClaimedTabs(Len(batch))
    /\ last # <<>> => last[1].tab = (last[1].item - 1) % ClaimedTabs(Len(batch))
    /\ (Len(batch) = 7 /\ bpc = "returned") => tabLog = <<0, 1, 2, 0, 1, 2, 0>>

\* a batch of 7 items has been processed
C9_Witness ==
    /\ Len(batch) = 7
    /\ bpc = "returned"
    /\ Len(tabs) = 3
    /\ tabLog = <<0, 1, 2, 0, 1, 2, 0>>

\* C10 (item-level fault isolation): whichever step fails for one item, a
\* batch whose tabs were opened attempts every item exactly once before it
\* ends.
C10_FaultIsolation ==
    (BatchOver /\ batch # <<>> /\ Len(tabs) = ClaimedTabs(Len(batch))) =>
        \A i \in 1..Len(batch) : attempts[i] = 1

\* C11 (tab release): on every way out of download_batch_immediately, also
\* when opening a tab or processing an item raised, every tab the batch
\* opened has had its close attempted by the time the call returns or the
\* exception goes on to the caller.
C11_TabsReleased ==
    BatchOver => \A i \in 1..Len(tabs) : tabs[i] = "closed"

\* opening a later tab raised after an earlier tab had been opened
C11_Witness ==
    /\ bpc = "raised"
    /\ tabs # <<>>
    /\ Len(tabs) < ClaimedTabs(Len(batch))
    /\ \A i \in 1..Len(tabs) : tabs[i] = "closed"

\* C18 (off-host navigation is a failure): a call whose navigation lands on
\* a location that does not belong to the host n8n.io returns failure
\* without a click, without a clipboard read and without creating a file.
C18_OffHostIsFailure ==
    (last # <<>> /\ last[1].url.host = "elsewhere") =>
        /\ last[1].result = "false"
        /\ last[1].steps = NavSteps
        /\ files[last[1].item] = "absent"

\* C19 (step short-circuit and write guard): a failed call stopped at the
\* step that failed; a file is opened for writing only after the navigation
\* stayed on the host n8n.io, both controls were clicked and the clipboard
\* was read and parsed; no item is attempted twice in one batch.
C19_StepGuard ==
    /\ last # <<>> =>
        /\ last[1].result = "false" =>
                last[1].steps \in {NavSteps, UseSteps, CopySteps, ReadSteps, WriteSteps}
        /\ "open_w" \in last[1].steps =>
                /\ last[1].url.host = "n8n.io"
                /\ last[1].steps = WriteSteps
        /\ last[1].result = "true" /\ last[1].before = "absent" =>
                last[1].steps = WriteSteps /\ files[last[1].item] = "whole"
    /\ \A i \in 1..Len(attempts) : attempts[i] <= 1

(***************************************************************************)
(* The list one extraction returns                                         *)
(***************************************************************************)
\* C15 (extractor dedup and order): the sequence one call of
\* extract_workflow_links returns has no two items with the same slug.
C15_ExtractorDedup ==
    xpc = "returned" =>
        \A i, j \in 1..Len(workflows) :
            workflows[i].slug = workflows[j].slug => i = j

(***************************************************************************)
(* Bounds of the category traversal                                        *)
(***************************************************************************)
\* C16 (per-subcategory cap): a traversal never holds more than 150
\* accepted items, and once it holds 150 it is past its loop: no 'load more'
\* and no page extraction follows.
C16_SubcategoryCap ==
    /\ Len(all_workflows) <= 150
    /\ found <= 150
    /\ Len(all_workflows) >= 150 => cpc \in {"final", "done"} /\ term = "cap"

\* the 150th item came in the middle of a page of 30, after pages of 5
C16_Witness ==
    /\ cpc = "done"
    /\ term = "cap"
    /\ Len(all_workflows) = 150
    /\ pages_loaded = 10
    /\ lastFlush = "final"

\* C17 (page-load bound): no traversal of a category performs more than 30
\* page extractions.
C17_PageBound == pages_loaded <= 30

(***************************************************************************)
(* Properties of discovery and of the run                                  *)
(***************************************************************************)
ExpectedFallback == <<"sales", "it-ops", "marketing", "document-ops", "other", "support">>

SlugsOf(cats) == [i \in 1..Len(cats) |-> cats[i].slug]

IsFallback(cats) == SlugsOf(cats) = [i \in 1..6 |-> <<ExpectedFallback[i]>>]

AiSpellings == {<<"ai">>, <<"AI">>, <<"Ai">>, <<"aI">>}

\* C12 (discovery retry then fallback): discover_main_categories navigates
\* to the categories page at most 3 times and not again after a navigation
\* succeeded; when all 3 fail it returns the hardcoded list of exactly the
\* 6 categories sales, it-ops, marketing, document-ops, other, support.
C12_RetryThenFallback ==
    /\ gotos <= 3
    /\ navOk => rpc # "nav"
    /\ (gotos = 3 /\ ~navOk) =>
            /\ rpc # "nav"
            /\ source = "nav_fallback"
            /\ Len(main_categories) = 6
            /\ IsFallback(main_categories)
            /\ \A i \in 1..6 : main_categories[i].slug \notin AiSpellings
    /\ source = "nav_fallback" => gotos = 3 /\ ~navOk

\* three navigations failed and the fallback list has been traversed
C12_Witness ==
    /\ gotos = 3
    /\ ~navOk
    /\ source = "nav_fallback"
    /\ rpc = "ended"
    /\ Len(scraped) = 20

\* C13 (discovery failure is never fatal): whenever live discovery yields
\* no category, discover_main_categories returns the non-empty fallback
\* list, so the traversal starts.
C13_DiscoveryNeverFatal ==
    (rpc \notin {"start", "nav", "scan", "crashed"}) =>
        /\ main_categories # <<>>
        /\ source # "live" => IsFallback(main_categories)

\* C14 (excluded category): the list discover_main_categories returns has
\* no category whose slug is 'ai' in any letter case, and no call of
\* scrape_category_workflows is made on such a category.
C14_NoAiCategory ==
    /\ \A i \in 1..Len(main_categories) : main_categories[i].slug \notin AiSpellings
    /\ \A i \in 1..Len(scraped) : scraped[i] \notin AiSpellings

\* the page listed the category as 'AI//' next to another one, and the run
\* went through what was left
C14_Witness ==
    /\ source = "live"
    /\ \E i \in 1..Len(categories) : categories[i].slug = <<"AI">>
    /\ Len(main_categories) < Len(categories)
    /\ rpc = "ended"
    /\ reported
    /\ scraped # <<>>

\* C20 (final report always attempted): print_final_statistics has been
\* called on every way the run ends.
C20_ReportAlways == rpc = "ended" => reported

\* the calls a traversal of the list cats is to make, in order
RECURSIVE ExpectedCalls(_)
ExpectedCalls(cats) ==
    IF cats = <<>> THEN <<>>
    ELSE (IF Subcategories(Head(cats)) # <<>>
          THEN SlugsOf(Subcategories(Head(cats)))
          ELSE <<Head(cats).slug>>)
         \o ExpectedCalls(Tail(cats))

IsPrefix(s, t) == Len(s) <= Len(t) /\ s = SubSeq(t, 1, Len(s))

\* C21 (per-page error absorption): an error inside the traversal of one
\* (sub)category is caught inside scrape_category_workflows and the loop
\* goes on to every (sub)category after it; only an exception raised in the
\* outer loop itself ends the run early.
C21_ErrorsAbsorbed ==
    /\ (rpc = "except" /\ ~reported) => lastScrape = "escaped"
    /\ (lastScrape = "absorbed" /\ ~reported) => rpc \in {"traverse", "stats"}
    /\ (lastScrape = "absorbed" /\ rpc = "traverse") =>
            Len(scraped) < Len(ExpectedCalls(main_categories))
    /\ (rpc = "ended" /\ lastScrape # "escaped" /\ main_categories # <<>>) =>
            Len(scraped) = Len(ExpectedCalls(main_categories))

\* the first subcategory of the fallback list failed and the loop is at the
\* second
C21_Witness ==
    /\ source = "nav_fallback"
    /\ lastScrape = "absorbed"
    /\ rpc = "traverse"
    /\ scraped = << <<"crm">> >>
    /\ sj = 1

C23_OneOutcomePerItem == itemCalls <= 1

\* C24 (category slug uniqueness): the list discover_main_categories returns
\* has no two categories with the same slug.
C24_UniqueCategorySlugs ==
    \A i, j \in 1..Len(main_categories) :
        main_categories[i].slug = main_categories[j].slug => i = j

\* C26 (traversal shape): for each main category in list order the
\* traversal is run once per known subcategory in table order and not on the
\* parent, or once on the category itself when it has none; the calls come
\* one after another.
C26_TraversalShape ==
    /\ IsPrefix(scraped, ExpectedCalls(main_categories))
    /\ (rpc = "stats" \/ reported) => scraped = ExpectedCalls(main_categories)
    /\ (IsFallback(main_categories) /\ Len(scraped) >= 4) =>
            SubSeq(scraped, 1, 4) =
                << <<"crm">>, <<"lead-generation">>, <<"lead-nurturing">>, <<"secops">> >>
    /\ \A i \in 1..Len(scraped) :
            scraped[i] \notin {<<"sales">>, <<"it-ops">>, <<"marketing">>,
                               <<"document-ops">>, <<"other">>, <<"support">>}

\* a live list with a category that has subcategories and one that has none
\* was traversed to the end
C26_Witness ==
    /\ source = "live"
    /\ rpc = "ended"
    /\ reported
    /\ SlugsOf(main_categories) = << <<"finance">>, <<"sales">> >>
    /\ scraped = << <<"finance">>, <<"crm">>, <<"lead-generation">>, <<"lead-nurturing">> >>

\* C27 (shared exploration tab): the run creates one exploration tab and
\* uses it for discovery and for every traversal; scrape_category_workflows
\* does not close a tab it was given, on success or on error, and closes on
\* exit only a tab it created.
C27_SharedTab ==
    /\ pagesOpened <= 1
    /\ rpc \in {"nav", "scan", "discovered", "traverse", "stats", "except", "finally"}
            => pagesOpened = 1 /\ explorationTab = "open"
    /\ explorationTab = "closed" => rpc = "ended"
    /\ rpc = "traverse" =>
            \A given \in {"none", "page"} : ClosesOnExit(given) <=> OwnPage(given)

\* two traversals used the tab, the second one failed, and the tab is open
C27_Witness ==
    /\ rpc = "traverse"
    /\ Len(scraped) = 2
    /\ lastScrape = "absorbed"
    /\ pagesOpened = 1
    /\ explorationTab = "open"

\* C25 (pagination termination): when every browser call returns, every call
\* of scrape_category_workflows ends, whatever the pages show and however
\* long 'load more' stays available.
C25_Terminates == <>(cpc = "done")

\* 31 pages without one new accepted item, 'load more' available throughout
C25_Witness ==
    /\ cpc = "done"
    /\ term = "bound"
    /\ all_workflows = <<>>
    /\ pages_loaded = 31

(***************************************************************************)
(* Order and accounting from the listing to the counters                   *)
(***************************************************************************)
\* C28 (dispatch order): within one (sub)category the items are handed to
\* download_batch_immediately in the order in which they were accepted: the
\* batches handed on, put end to end, are the accepted list; inside a batch
\* the items are attempted in input order.
C28_DispatchOrder ==
    /\ IsPrefix(handedAll, all_workflows)
    /\ cpc \in {"extract", "flush", "more", "final"} =>
            handedAll \o pending_downloads = all_workflows
    /\ (cpc = "done" /\ term # "error") => handedAll = all_workflows
    /\ lastBatch = SubSeq(handedAll, Len(handedAll) - Len(lastBatch) + 1, Len(handedAll))
    /\ \A i \in 1..Len(tabLog) : attempts[batch[i]] >= 1
    /\ \A i \in 2..Len(batch) : attempts[batch[i]] >= 1 => attempts[batch[i - 1]] >= 1

\* a traversal handed on a threshold batch of 30 and then a remainder
C28_Witness ==
    /\ cpc = "done"
    /\ term = "nomore"
    /\ lastFlush = "final"
    /\ Len(handedAll) = 35
    /\ Len(lastBatch) = 5
    /\ handedAll = all_workflows

\* C29 (strictly sequential downloads): a batch has up to 3 tabs, and yet
\* the call for the item at index i+1 starts only after the outcome of item
\* i is in the counters; the outcomes come in input order.
C29_Sequential ==
    /\ \A i \in 1..Len(attempts) :
            attempts[i] = IF i <= idx \/ (i = idx + 1 /\ bpc \in {"finally_raise", "raised"}
                                                    /\ last # <<>>)
                          THEN 1 ELSE 0
    /\ last # <<>> => last[1].item = IF last[1].result = "raise" THEN idx + 1 ELSE idx
    /\ run = 1 => \A i \in 1..Len(navs) : navs[i] >= 1 => downloaded + errors >= i - 1
    /\ Len(tabLog) = Cardinality({i \in 1..Len(attempts) : attempts[i] >= 1})

\* three tabs are open, two items have their outcome, the third is not begun
C29_Witness ==
    /\ run = 1
    /\ bpc = "items"
    /\ Len(tabs) = 3
    /\ idx = 2
    /\ downloaded + errors = 2
    /\ attempts = <<1, 1, 0, 0>>
    /\ navs[2] = 1

\* C30 (counter accounting): every item a batch has processed added one to
\* exactly one of total_workflows_downloaded and total_errors; these never
\* add up to more than the items found, and add up to it at the end of a
\* traversal in which no exception was caught.
C30_CounterAccounting ==
    /\ run = 1 => downloaded + errors = idx
    /\ run = 1 => downloaded = Cardinality({i \in 1..Len(attempts) :
                                    i <= idx /\ files[i] = "whole"})
    /\ recorded <= Len(handedAll)
    /\ recorded <= found
    /\ found = Len(all_workflows)
    /\ (cpc = "done" /\ ~caught) => recorded = found

\* a traversal ended at the page bound with every found item counted
C30_Witness ==
    /\ cpc = "done"
    /\ term = "bound"
    /\ ~caught
    /\ found = 35
    /\ recorded = 35

(***************************************************************************)
(* Synthetic slugs                                                         *)
(***************************************************************************)
Synthetic(wd) == wd.slug[1] = "workflow"

\* C32 (synthetic slugs and duplicates): in the list one call of
\* extract_workflow_links returns, an entry whose URL has no slug of the
\* form number-name is there at most once however often it was matched,
\* and no two accepted entries have the same synthetic slug.
C32_SyntheticSlugs ==
    xpc = "returned" =>
        \A i, j \in 1..Len(workflows) :
            (Synthetic(workflows[i]) /\ Synthetic(workflows[j])) =>
                /\ (/\ workflows[i].url = workflows[j].url
                    /\ workflows[i].title = workflows[j].title) => i = j
                /\ workflows[i].slug = workflows[j].slug => i = j

(***************************************************************************)
(* Open tabs                                                               *)
(***************************************************************************)
OpenDownloadTabs == Cardinality({i \in 1..Len(tabs) : tabs[i] = "open"})

OpenTabs == (IF explorationTab = "open" THEN 1 ELSE 0) + OpenDownloadTabs

====
